---- MODULE Spec2Model ----
(***************************************************************************)
(* word_count (src/main.rs): read a text file, count its whitespace-       *)
(* delimited words in batches of lines, print the counts in key order.     *)
(*                                                                         *)
(* Characters are their code points (10 = LF, 32 = space, 58 = ':',        *)
(* 84 = 'T', 116 = 't', 48..57 = '0'..'9'); a String is a sequence of      *)
(* code points, so Rust's byte-wise String order is the lexicographic      *)
(* order on these sequences.  A BTreeMap<String, usize> is a function from *)
(* a finite set of Strings to naturals, iterated in ascending key order.   *)
(***************************************************************************)
EXTENDS Integers, Sequences, FiniteSets, TLC

\* Longest input file, in characters.
MaxFileLen == 5
\* Largest scaled-down chunk size tried beside the program's own.
MaxChunk == 2
\* main.rs:28, .chunks(10000)
CHUNK_SIZE == 10000

VARIABLES
  pc,          \* where main (or the test harness) stands
  rest,        \* the reader: the part of the file not yet read
  lines,       \* the Vec<String> that .lines().collect() builds
  chunk_size,  \* the argument of .chunks(): CHUNK_SIZE, or a scaled-down size
  pos,         \* the chunks iterator: how many lines it has handed out
  word_counts, \* the BTreeMap<String, usize>
  output,      \* the lines printed to stdout so far
  failure,     \* which unwrap panicked: "none", "open" or "read"
  batches,     \* history: the chunks passed to process_chunk, in call order
  pauses,      \* history: how many times thread::sleep has returned
  test         \* the unit-test harness: its arranged inputs and second table

vars == <<pc, rest, lines, chunk_size, pos, word_counts, output, failure,
          batches, pauses, test>>

----------------------------------------------------------------------------
(* Strings *)

\* The characters input files are built from: LF, space, 'T', 't'.
Chars == {10, 32, 84, 116}

\* char::is_whitespace: the Unicode White_Space code points.
IsWhitespace(c) ==
  c \in {9, 10, 11, 12, 13, 32, 133, 160, 5760, 8232, 8233, 8239, 8287, 12288}
    \cup (8192..8202)

\* Every file of at most MaxFileLen characters.
Files == UNION {[1..n -> Chars] : n \in 0..MaxFileLen}

\* The sizes .chunks() is run with: the program's 10000, and sizes small
\* enough for inputs of a few lines to span several chunks.
ChunkSizes == (1..MaxChunk) \cup {CHUNK_SIZE}

\* BTreeMap::new()
EmptyTable == [w \in {} |-> 0]

\* String's Ord: byte-wise lexicographic, a proper prefix first.
StrLess(a, b) ==
  \E i \in 1..(Len(a) + 1) :
    /\ i <= Len(b)
    /\ \A j \in 1..(i - 1) : a[j] = b[j]
    /\ (i = Len(a) + 1 \/ a[i] < b[i])

----------------------------------------------------------------------------
(* BufRead::lines *)

\* Index of the first LF of s, or 0.
FirstLF(s) ==
  IF \E i \in 1..Len(s) : s[i] = 10
  THEN CHOOSE i \in 1..Len(s) : s[i] = 10 /\ \A j \in 1..(i - 1) : s[j] # 10
  ELSE 0

\* One read_line on a non-empty remainder: the text up to the first LF (or
\* to the end of the file), without the LF and without a CR before it.
NextLine(s) ==
  LET i == FirstLF(s)
      raw == IF i = 0 THEN s ELSE SubSeq(s, 1, i - 1)
      cr == i # 0 /\ Len(raw) > 0 /\ raw[Len(raw)] = 13
  IN [line |-> IF cr THEN SubSeq(raw, 1, Len(raw) - 1) ELSE raw,
      rest |-> IF i = 0 THEN <<>> ELSE SubSeq(s, i + 1, Len(s))]

----------------------------------------------------------------------------
(* process_chunk *)

\* str::split_whitespace, scanning: cur is the word being read.
RECURSIVE SplitScan(_, _, _)
SplitScan(s, cur, acc) ==
  IF s = <<>>
  THEN IF cur = <<>> THEN acc ELSE Append(acc, cur)
  ELSE IF IsWhitespace(Head(s))
       THEN SplitScan(Tail(s), <<>>, IF cur = <<>> THEN acc ELSE Append(acc, cur))
       ELSE SplitScan(Tail(s), Append(cur, Head(s)), acc)

\* Variant: str::split(char::is_whitespace), which keeps the empty fragments.
RECURSIVE SplitKeepScan(_, _, _)
SplitKeepScan(s, cur, acc) ==
  IF s = <<>> THEN Append(acc, cur)
  ELSE IF IsWhitespace(Head(s))
       THEN SplitKeepScan(Tail(s), <<>>, Append(acc, cur))
       ELSE SplitKeepScan(Tail(s), Append(cur, Head(s)), acc)

SplitWhitespace_KeepEmpty(line) == SplitKeepScan(line, <<>>, <<>>)

SplitWhitespace(line) == SplitScan(line, <<>>, <<>>)

\* Variant: *word_counts.entry(word.to_string()).or_insert(1) += 1
IncrementEntry_InsertOne(wc, word) ==
  [k \in DOMAIN wc \cup {word} |->
     IF k = word
     THEN (IF word \in DOMAIN wc THEN wc[word] ELSE 1) + 1
     ELSE wc[k]]

\* *word_counts.entry(word.to_string()).or_insert(0) += 1
IncrementEntry(wc, word) ==
  [k \in DOMAIN wc \cup {word} |->
     IF k = word
     THEN (IF word \in DOMAIN wc THEN wc[word] ELSE 0) + 1
     ELSE wc[k]]

\* for word in line.split_whitespace() { ... }
RECURSIVE CountWords(_, _)
CountWords(words, wc) ==
  IF words = <<>> THEN wc
  ELSE CountWords(Tail(words), IncrementEntry(wc, Head(words)))

\* Variant: line.to_lowercase().split_whitespace()
ProcessLine_Lowercase(line, wc) ==
  CountWords(SplitWhitespace([i \in 1..Len(line) |->
                                IF line[i] \in 65..90 THEN line[i] + 32
                                ELSE line[i]]), wc)

\* Variant: a word repeated right after itself in a line is counted once.
RECURSIVE Dedup(_)
Dedup(words) ==
  IF Len(words) < 2 THEN words
  ELSE IF words[1] = words[2] THEN Dedup(Tail(words))
       ELSE <<Head(words)>> \o Dedup(Tail(words))

ProcessLine_Dedup(line, wc) == CountWords(Dedup(SplitWhitespace(line)), wc)

ProcessLine(line, wc) == CountWords(SplitWhitespace(line), wc)

\* for line in chunk { ... }
RECURSIVE FoldLines(_, _)
FoldLines(chunk, wc) ==
  IF chunk = <<>> THEN wc
  ELSE FoldLines(Tail(chunk), ProcessLine(Head(chunk), wc))

\* Variant: each call counts into a fresh map that replaces the table.
ProcessChunk_Fresh(chunk, wc) == FoldLines(chunk, EmptyTable)

ProcessChunk(chunk, wc) == FoldLines(chunk, wc)

----------------------------------------------------------------------------
(* main *)

\* Variant: slice::chunks_exact(size), which hands out no short last chunk.
NextChunk_Exact(v, done, size) ==
  IF done + size <= Len(v) THEN SubSeq(v, done + 1, done + size) ELSE <<>>

\* slice::chunks(size): the next chunk after `done` lines were handed out.
NextChunk(v, done, size) ==
  SubSeq(v, done + 1, IF done + size <= Len(v) THEN done + size ELSE Len(v))

\* BTreeMap iteration: the keys in ascending order.
RECURSIVE KeysFrom(_)
KeysFrom(keys) ==
  IF keys = {} THEN <<>>
  ELSE LET m == CHOOSE k \in keys : \A o \in keys \ {k} : StrLess(k, o)
       IN <<m>> \o KeysFrom(keys \ {m})

\* Variant: the keys in descending order.
RECURSIVE KeysDownFrom(_)
KeysDownFrom(keys) ==
  IF keys = {} THEN <<>>
  ELSE LET m == CHOOSE k \in keys : \A o \in keys \ {k} : StrLess(o, k)
       IN <<m>> \o KeysDownFrom(keys \ {m})

KeysAscending_Descending(wc) == KeysDownFrom(DOMAIN wc)

KeysAscending(wc) == KeysFrom(DOMAIN wc)

\* usize's Display: decimal digits, no sign, no padding.
RECURSIVE Decimal(_)
Decimal(n) ==
  IF n < 10 THEN <<48 + n>> ELSE Decimal(n \div 10) \o <<48 + (n % 10)>>

\* format!("{}: {}", word, count)
FormatEntry(word, count) == word \o <<58, 32>> \o Decimal(count)

NoTest == [T |-> EmptyTable, A |-> <<>>, B |-> <<>>, other |-> EmptyTable,
           left |-> 0, right |-> <<>>]

InitMain ==
  /\ pc = "open"
  /\ rest \in Files
  /\ lines = <<>>
  /\ chunk_size \in ChunkSizes
  /\ pos = 0
  /\ word_counts = EmptyTable
  /\ output = <<>>
  /\ failure = "none"
  /\ batches = <<>>
  /\ pauses = 0
  /\ test = NoTest

\* File::open(&args.path).unwrap(), the file is there
OpenOk ==
  /\ pc = "open"
  /\ pc' = "read"
  /\ UNCHANGED <<rest, lines, chunk_size, pos, word_counts, output, failure,
                 batches, pauses, test>>

\* File::open(&args.path).unwrap(), the open fails: panic
OpenErr ==
  /\ pc = "open"
  /\ pc' = "aborted"
  /\ failure' = "open"
  /\ UNCHANGED <<rest, lines, chunk_size, pos, word_counts, output,
                 batches, pauses, test>>

\* reader.lines() yields Ok(line); collect pushes it
ReadLine ==
  /\ pc = "read"
  /\ rest # <<>>
  /\ lines' = Append(lines, NextLine(rest).line)
  /\ rest' = NextLine(rest).rest
  /\ UNCHANGED <<pc, chunk_size, pos, word_counts, output, failure,
                 batches, pauses, test>>

\* Variant: .lines().map_while(Result::ok).collect(), which stops at the
\* first Err and goes on with the lines read before it.
ReadErr_Lenient ==
  /\ pc = "read"
  /\ pc' = "loop"
  /\ failure' = "read"
  /\ UNCHANGED <<rest, lines, chunk_size, pos, word_counts, output,
                 batches, pauses, test>>

\* reader.lines() yields Err (I/O error, invalid UTF-8): collect returns the
\* Err and unwrap panics
ReadErr ==
  /\ pc = "read"
  /\ pc' = "aborted"
  /\ failure' = "read"
  /\ UNCHANGED <<rest, lines, chunk_size, pos, word_counts, output,
                 batches, pauses, test>>

\* reader.lines() is exhausted: collect returns Ok(vec), the for loop starts
ReadEnd ==
  /\ pc = "read"
  /\ rest = <<>>
  /\ pc' = "loop"
  /\ UNCHANGED <<rest, lines, chunk_size, pos, word_counts, output, failure,
                 batches, pauses, test>>

\* Variant: the sleep only between chunks, none after the last one.
Update_NoLastSleep ==
  /\ pc = "loop"
  /\ pos < Len(lines)
  /\ LET chunk == NextChunk(lines, pos, chunk_size)
     IN /\ word_counts' = ProcessChunk(chunk, word_counts)
        /\ pos' = pos + Len(chunk)
        /\ batches' = Append(batches, chunk)
        /\ pc' = IF pos + Len(chunk) < Len(lines) THEN "sleep" ELSE "loop"
  /\ UNCHANGED <<rest, lines, chunk_size, output, failure, pauses, test>>

\* the loop takes the next chunk: process_chunk(chunk, &mut word_counts)
Update ==
  /\ pc = "loop"
  /\ pos < Len(lines)
  /\ LET chunk == NextChunk(lines, pos, chunk_size)
     IN /\ word_counts' = ProcessChunk(chunk, word_counts)
        /\ pos' = pos + Len(chunk)
        /\ batches' = Append(batches, chunk)
  /\ pc' = "sleep"
  /\ UNCHANGED <<rest, lines, chunk_size, output, failure, pauses, test>>

\* std::thread::sleep(Duration::from_millis(10)) returns
Pause ==
  /\ pc = "sleep"
  /\ pauses' = pauses + 1
  /\ pc' = "loop"
  /\ UNCHANGED <<rest, lines, chunk_size, pos, word_counts, output, failure,
                 batches, test>>

\* Variant: the loop can be left after any chunk (a break in its body).
LoopEnd_Early ==
  /\ pc = "loop"
  /\ (pos >= Len(lines) \/ pos > 0)
  /\ pc' = "emit"
  /\ UNCHANGED <<rest, lines, chunk_size, pos, word_counts, output, failure,
                 batches, pauses, test>>

\* the chunks iterator is exhausted: the for loop ends
LoopEnd ==
  /\ pc = "loop"
  /\ pos >= Len(lines)
  /\ pc' = "emit"
  /\ UNCHANGED <<rest, lines, chunk_size, pos, word_counts, output, failure,
                 batches, pauses, test>>

\* println!("{}: {}", word, count) for the next entry of the map
Emit ==
  /\ pc = "emit"
  /\ Len(output) < Cardinality(DOMAIN word_counts)
  /\ LET word == KeysAscending(word_counts)[Len(output) + 1]
     IN output' = Append(output, FormatEntry(word, word_counts[word]))
  /\ UNCHANGED <<pc, rest, lines, chunk_size, pos, word_counts, failure,
                 batches, pauses, test>>

\* the map's iterator is exhausted: main returns
EmitEnd ==
  /\ pc = "emit"
  /\ Len(output) = Cardinality(DOMAIN word_counts)
  /\ pc' = "done"
  /\ UNCHANGED <<rest, lines, chunk_size, pos, word_counts, output, failure,
                 batches, pauses, test>>

----------------------------------------------------------------------------
(* mod tests: process_chunk called directly on arranged inputs.  Each test  *)
(* arranges a chunk and a table, calls process_chunk and compares tables;   *)
(* here the arranged inputs range over bounded sets, and a second table     *)
(* (test.other) starts as a copy of the first so two call sequences can be  *)
(* compared with assert_eq.                                                 *)

\* All the lines of a file, as .lines().collect() gathers them.
RECURSIVE AllLines(_)
AllLines(s) ==
  IF s = <<>> THEN <<>>
  ELSE <<NextLine(s).line>> \o AllLines(NextLine(s).rest)

\* The reorderings the harness arranges (the source's tests arrange fixed
\* inputs; these enumerate every reordering of the arranged lines and words).

\* The permutations of 1..n.
Perms(n) == {p \in [1..n -> 1..n] : \A i, j \in 1..n : p[i] = p[j] => i = j}

\* The maximal runs of whitespace and of non-whitespace of a line, in order.
RECURSIVE Runs(_, _, _)
Runs(s, cur, acc) ==
  IF s = <<>>
  THEN IF cur = <<>> THEN acc ELSE Append(acc, cur)
  ELSE IF cur = <<>> \/ IsWhitespace(Head(s)) = IsWhitespace(cur[1])
       THEN Runs(Tail(s), Append(cur, Head(s)), acc)
       ELSE Runs(Tail(s), <<Head(s)>>, Append(acc, cur))

RECURSIVE Flatten(_)
Flatten(ss) == IF ss = <<>> THEN <<>> ELSE Head(ss) \o Flatten(Tail(ss))

\* The lines got from `line` by permuting its words, separators left alone.
WordPerms(line) ==
  LET runs == Runs(line, <<>>, <<>>)
      W == {i \in 1..Len(runs) : ~IsWhitespace(runs[i][1])}
  IN {Flatten([i \in 1..Len(runs) |-> IF i \in W THEN runs[q[i]] ELSE runs[i]]) :
        q \in {f \in [W -> W] : \A i, j \in W : f[i] = f[j] => i = j}}

\* The batches got from `batch` by permuting the words inside each line.
RECURSIVE WordVariants(_)
WordVariants(batch) ==
  IF batch = <<>> THEN {<<>>}
  ELSE {<<h>> \o t : h \in WordPerms(Head(batch)), t \in WordVariants(Tail(batch))}

\* Arrange: batches A and B, and a starting table T that process_chunk built
\* from some earlier lines; both tables start as T.
InitTest ==
  /\ pc = "test"
  /\ \E f \in Files :
       LET ls == AllLines(f)
       IN \E i \in 0..Len(ls) : \E j \in i..Len(ls) :
            LET T == ProcessChunk(SubSeq(ls, 1, i), EmptyTable)
            IN /\ test = [T |-> T, A |-> SubSeq(ls, i + 1, j),
                          B |-> SubSeq(ls, j + 1, Len(ls)), other |-> T,
                          left |-> 0, right |-> <<>>]
               /\ word_counts = T
  /\ rest = <<>>
  /\ lines = <<>>
  /\ chunk_size = CHUNK_SIZE
  /\ pos = 0
  /\ output = <<>>
  /\ failure = "none"
  /\ batches = <<>>
  /\ pauses = 0

parked == <<pc, rest, lines, chunk_size, pos, output, failure, batches, pauses>>

\* Act, first table: process_chunk(&A, ..), then process_chunk(&B, ..);
\* the second table is acted on once the first is complete
TestLeft ==
  /\ pc = "test"
  /\ test.left < 2
  /\ word_counts' =
       ProcessChunk(IF test.left = 0 THEN test.A ELSE test.B, word_counts)
  /\ test' = [test EXCEPT !.left = @ + 1]
  /\ UNCHANGED parked

\* Act, second table: process_chunk on A followed by B as one batch
TestRightWhole ==
  /\ pc = "test"
  /\ test.left = 2
  /\ test.right = <<>>
  /\ test' = [test EXCEPT !.other = ProcessChunk(test.A \o test.B, @),
                          !.right = <<"AB">>]
  /\ UNCHANGED <<word_counts, parked>>

\* Act, second table: process_chunk(&B, ..), then process_chunk(&A, ..)
TestRightSwapped ==
  /\ pc = "test"
  /\ test.left = 2
  /\ test.right \in {<<>>, <<"B">>}
  /\ test' = [test EXCEPT
                !.other = ProcessChunk(IF test.right = <<>> THEN test.B
                                       ELSE test.A, @),
                !.right = Append(@, IF test.right = <<>> THEN "B" ELSE "A")]
  /\ UNCHANGED <<word_counts, parked>>

\* Act, second table: process_chunk on the lines of A, B in another order
TestRightLinesPermuted ==
  /\ pc = "test"
  /\ test.left = 2
  /\ test.right = <<>>
  /\ LET ab == test.A \o test.B
     IN \E p \in Perms(Len(ab)) :
          test' = [test EXCEPT
                     !.other = ProcessChunk([i \in 1..Len(ab) |-> ab[p[i]]], @),
                     !.right = <<"lines">>]
  /\ UNCHANGED <<word_counts, parked>>

\* Act, second table: process_chunk on A, B with the words of each line in
\* another order
TestRightWordsPermuted ==
  /\ pc = "test"
  /\ test.left = 2
  /\ test.right = <<>>
  /\ \E v \in WordVariants(test.A \o test.B) :
       test' = [test EXCEPT !.other = ProcessChunk(v, @),
                            !.right = <<"words">>]
  /\ UNCHANGED <<word_counts, parked>>

----------------------------------------------------------------------------

Init == InitMain \/ InitTest

Next ==
  \/ OpenOk \/ OpenErr \/ ReadLine \/ ReadErr \/ ReadEnd
  \/ Update \/ Pause \/ LoopEnd \/ Emit \/ EmitEnd
  \/ TestLeft \/ TestRightWhole \/ TestRightSwapped
  \/ TestRightLinesPermuted \/ TestRightWordsPermuted

Spec == Init /\ [][Next]_vars

\* main is sequential and every step of it returns: the file is finite, the
\* sleep is 10 ms, each loop runs over a finite collection.
FairSpec == Spec /\ WF_vars(Next)

----------------------------------------------------------------------------
(* Vocabulary of the properties, defined without the operators above.       *)

MainPcs == {"open", "read", "loop", "sleep", "emit", "done", "aborted"}

\* A word: non-empty, no whitespace in it.
IsWord(w) == w # <<>> /\ \A i \in 1..Len(w) : ~IsWhitespace(w[i])

\* The places of `line` where w stands as a maximal whitespace-delimited run.
WordPlaces(w, line) ==
  {i \in 1..(Len(line) - Len(w) + 1) :
     /\ SubSeq(line, i, i + Len(w) - 1) = w
     /\ (i = 1 \/ IsWhitespace(line[i - 1]))
     /\ (i + Len(w) - 1 = Len(line) \/ IsWhitespace(line[i + Len(w)]))}

RECURSIVE Occurrences(_, _)
Occurrences(w, ls) ==
  IF ls = <<>> THEN 0
  ELSE Cardinality(WordPlaces(w, Head(ls))) + Occurrences(w, Tail(ls))

\* The distinct words of a sequence of lines.
WordsOf(ls) ==
  {w \in UNION {{SubSeq(ls[k], i, j) : i, j \in 1..Len(ls[k])} : k \in 1..Len(ls)} :
     IsWord(w) /\ Occurrences(w, ls) >= 1}

\* wc is exactly the word count of ls.
ExactCount(wc, ls) ==
  /\ DOMAIN wc = WordsOf(ls)
  /\ \A w \in DOMAIN wc : wc[w] = Occurrences(w, ls)

\* Byte order on strings: at the first place they differ the smaller byte
\* wins; a proper prefix comes first.
ByteOrderBefore(a, b) ==
  LET common == {i \in 1..Len(a) : i <= Len(b) /\ \A j \in 1..i : a[j] = b[j]}
      n == Cardinality(common)
  IN IF n = Len(a) THEN Len(b) > n
     ELSE n < Len(b) /\ a[n + 1] < b[n + 1]

\* Reading an output line "<word>: <count>": the word has no space, so the
\* first space is the one after the colon.
SpaceAt(l) == CHOOSE p \in 1..Len(l) : l[p] = 32 /\ \A q \in 1..(p - 1) : l[q] # 32
OutWord(l) == SubSeq(l, 1, SpaceAt(l) - 2)
OutDigits(l) == SubSeq(l, SpaceAt(l) + 1, Len(l))

RECURSIVE DigitsValue(_)
DigitsValue(ds) ==
  IF ds = <<>> THEN 0
  ELSE 10 * DigitsValue(SubSeq(ds, 1, Len(ds) - 1)) + (ds[Len(ds)] - 48)

WellFormedLine(l) ==
  /\ \E p \in 3..Len(l) : l[p] = 32
  /\ l[SpaceAt(l) - 1] = 58
  /\ IsWord(OutWord(l))
  /\ OutDigits(l) # <<>>
  /\ \A i \in 1..Len(OutDigits(l)) : OutDigits(l)[i] \in 48..57
  /\ (Len(OutDigits(l)) > 1 => OutDigits(l)[1] # 48)

AllBlank(batch) ==
  \A k \in 1..Len(batch) : \A i \in 1..Len(batch[k]) : IsWhitespace(batch[k][i])

CeilDiv(n, d) == (n + d - 1) \div d

Upper == <<84>>
Lower == <<116>>

----------------------------------------------------------------------------
(* Claims *)

\* C1: when the run reaches the emitting step the table maps each word to
\* exactly its number of maximal whitespace-delimited, case-sensitive
\* occurrences over all input lines, and has no other key.
C1_FinalCountsExact ==
  pc \in {"emit", "done"} => ExactCount(word_counts, lines)

\* C1 witness: emitting, with "T" counted twice and "t" once, as separate keys.
C1_Witness ==
  /\ pc = "emit"
  /\ DOMAIN word_counts = {Upper, Lower}
  /\ word_counts[Upper] = 2
  /\ word_counts[Lower] = 1

\* C2: the output is one line "<word>: <count>" per distinct word of the
\* input, in strictly ascending byte order, and nothing else: nothing is
\* printed before the emitting step, and at the end there are exactly as many
\* lines as distinct words.
C2_OutputSortedOnePerWord ==
  /\ pc \in MainPcs \ {"emit", "done"} => output = <<>>
  /\ \A i \in 1..Len(output) :
       /\ WellFormedLine(output[i])
       /\ OutWord(output[i]) \in WordsOf(lines)
       /\ DigitsValue(OutDigits(output[i])) = Occurrences(OutWord(output[i]), lines)
  /\ \A i, j \in 1..Len(output) :
       i < j => ByteOrderBefore(OutWord(output[i]), OutWord(output[j]))
  /\ pc = "done" =>
       /\ Len(output) = Cardinality(WordsOf(lines))
       /\ {OutWord(output[i]) : i \in 1..Len(output)} = WordsOf(lines)

\* C2 witness: done, having printed "T: 1" and then "t: 2".
C2_Witness ==
  /\ pc = "done"
  /\ output = <<<<84, 58, 32, 49>>, <<116, 58, 32, 50>>>>

\* C3: process_chunk(A) then process_chunk(B) on a table gives the table
\* process_chunk(A ++ B) gives on a copy of it; and for every chunk size the
\* driver's final table is the one a single fold of all the lines gives.
C3_BatchingInvariant ==
  /\ (pc = "test" /\ test.left = 2 /\ test.right = <<"AB">>)
       => word_counts = test.other
  /\ pc \in {"emit", "done"} => word_counts = FoldLines(lines, EmptyTable)

\* C3 witness: the two-call and the one-call fold both done, on a non-empty
\* starting table and non-empty A and B that add to it.
C3_Witness ==
  /\ pc = "test"
  /\ test.left = 2
  /\ test.right = <<"AB">>
  /\ test.T # EmptyTable
  /\ test.A # <<>> /\ ~AllBlank(test.A)
  /\ test.B # <<>> /\ ~AllBlank(test.B)

FailsOnlyWhileCollecting ==
  failure' # failure => (pc \in {"open", "read"} /\ failure = "none")

NoStepAfterAbort == pc # "aborted"

\* C4: a failure to open the file or to read a line aborts the run, for good,
\* with no batch folded and no line printed; it can only happen while the
\* lines are being collected.
C4_FailureAbortsBeforeWork ==
  /\ [](failure # "none" =>
          /\ pc = "aborted"
          /\ batches = <<>>
          /\ pauses = 0
          /\ word_counts = EmptyTable
          /\ output = <<>>)
  /\ [](pc = "aborted" => failure # "none")
  /\ [][FailsOnlyWhileCollecting]_vars
  /\ [][NoStepAfterAbort]_vars

\* C4 witness: aborted by a read failure on the third line.
C4_Witness ==
  /\ pc = "aborted"
  /\ failure = "read"
  /\ Len(lines) = 2
  /\ rest # <<>>

\* C5: process_chunk gives the same table for a batch, for any permutation of
\* its lines, and for the same lines with the words of each line permuted;
\* folding B then A gives the same table as folding A then B.
C5_OrderIndependent ==
  (pc = "test" /\ test.left = 2
     /\ test.right \in {<<"B", "A">>, <<"lines">>, <<"words">>})
    => word_counts = test.other

\* C5 witness: a line with three words folded with its words in another order.
C5_Witness ==
  /\ pc = "test"
  /\ test.left = 2
  /\ test.right = <<"words">>
  /\ test.A = <<<<84, 32, 116, 32, 84>>>>
  /\ test.other = [w \in {Upper, Lower} |-> IF w = Upper THEN 2 ELSE 1]

\* C6: process_chunk on an empty batch, or on a batch of empty and
\* whitespace-only lines, leaves the table as it was; an input of zero lines
\* gives zero batches, an empty table and no output.
C6_BlankBatchNoOp ==
  /\ (pc = "test" /\ test.left = 1 /\ AllBlank(test.A))
       => word_counts = test.T
  /\ (pc = "test" /\ test.left = 2 /\ AllBlank(test.A) /\ AllBlank(test.B))
       => word_counts = test.T
  /\ (pc \in MainPcs /\ AllBlank(lines)) => word_counts = EmptyTable /\ output = <<>>
  /\ (pc \in {"loop", "sleep", "emit", "done"} /\ lines = <<>>) => batches = <<>>

\* C6 witness: a non-empty table after process_chunk on a batch of an empty
\* line and a whitespace-only line.
C6_Witness ==
  /\ pc = "test"
  /\ test.left = 1
  /\ test.T # EmptyTable
  /\ test.A = <<<<>>, <<32, 32>>>>

Phase(p) ==
  CASE p \in {"open", "read"} -> "Reading"
    [] p \in {"loop", "sleep"} -> "Counting"
    [] p = "emit" -> "Emitting"
    [] p = "done" -> "Done"
    [] p = "aborted" -> "Aborted"
    [] OTHER -> "Test"

PhaseSteps ==
  {<<"Reading", "Reading">>, <<"Reading", "Counting">>, <<"Reading", "Aborted">>,
   <<"Counting", "Counting">>, <<"Counting", "Emitting">>,
   <<"Emitting", "Emitting">>, <<"Emitting", "Done">>, <<"Test", "Test">>}

PhaseStepAllowed == (<<Phase(pc), Phase(pc')>>) \in PhaseSteps

TableFrozenWhileEmitting ==
  Phase(pc) \in {"Emitting", "Done"} => word_counts' = word_counts

\* C7: the run goes through reading, counting, emitting and done in that
\* order, skipping none and re-entering none: no batch is folded before the
\* last line is read, nothing is printed before the last batch is folded,
\* the table does not change once emitting has begun, and every run ends in
\* done, with every entry printed, or aborted.
C7_PhasesInOrder ==
  /\ [][PhaseStepAllowed]_vars
  /\ [](batches # <<>> => (Phase(pc) \notin {"Reading", "Aborted"} /\ rest = <<>>))
  /\ [](output # <<>> => (Phase(pc) \in {"Emitting", "Done"} /\ pos = Len(lines)))
  /\ [][TableFrozenWhileEmitting]_vars
  /\ [](pc = "done" => Len(output) = Cardinality(DOMAIN word_counts))
  /\ [](pc \in MainPcs => <>(pc \in {"done", "aborted"}))

\* C7 witness: done after two batches and two printed entries.
C7_Witness ==
  /\ pc = "done"
  /\ Len(batches) = 2
  /\ Len(output) = 2

\* C8: the driver folds ceil(n / chunk size) batches for n lines: each has at
\* least one line and at most the chunk size, each but the last has exactly
\* the chunk size, and together, in call order, they are the input lines.
C8_BatchesPartitionInput ==
  pc \in MainPcs =>
    /\ \A i \in 1..Len(batches) :
         /\ Len(batches[i]) >= 1
         /\ Len(batches[i]) <= chunk_size
         /\ i < Len(batches) => Len(batches[i]) = chunk_size
    /\ \E n \in 0..Len(lines) :
         Len(Flatten(batches)) = n /\ Flatten(batches) = SubSeq(lines, 1, n)
    /\ pc \in {"emit", "done"} =>
         /\ Flatten(batches) = lines
         /\ Len(batches) = CeilDiv(Len(lines), chunk_size)

\* C8 witness: three lines folded as a batch of two and a batch of one.
C8_Witness ==
  /\ pc = "emit"
  /\ chunk_size = 2
  /\ Len(lines) = 3
  /\ Len(batches) = 2
  /\ Len(batches[1]) = 2
  /\ Len(batches[2]) = 1

UpdateThenSleep ==
  batches' # batches =>
    /\ pc = "loop" /\ pc' = "sleep"
    /\ Len(batches') = Len(batches) + 1
    /\ pauses' = pauses

PauseChangesNothing ==
  pauses' # pauses =>
    /\ pc = "sleep" /\ pc' = "loop"
    /\ pauses' = pauses + 1
    /\ UNCHANGED <<word_counts, lines, pos, batches, chunk_size, output>>

SleepEndsInPause == pc = "sleep" => pauses' # pauses

\* C9: updates and pauses alternate, the update first: while sleeping there
\* is one more update than pauses, otherwise as many; a pause follows every
\* update, and changes neither the table nor what is left to fold.
C9_UpdatePauseAlternate ==
  /\ [](pc \in MainPcs =>
          Len(batches) = IF pc = "sleep" THEN pauses + 1 ELSE pauses)
  /\ [][UpdateThenSleep]_vars
  /\ [][PauseChangesNothing]_vars
  /\ [][SleepEndsInPause]_vars

\* C9 witness: sleeping after the second update, one pause taken so far.
C9_Witness ==
  /\ pc = "sleep"
  /\ Len(batches) = 2
  /\ pauses = 1

NeverRemovedNeverDecreased ==
  pc \in MainPcs =>
    \A w \in DOMAIN word_counts :
      w \in DOMAIN word_counts' /\ word_counts'[w] >= word_counts[w]

\* C10: after k batches the table is exactly the word count of the lines of
\* those k batches; every key has count >= 1; no key is ever removed and no
\* count ever decreases.
C10_RunningTableExact ==
  /\ [](pc \in MainPcs =>
          /\ ExactCount(word_counts, Flatten(batches))
          /\ \A w \in DOMAIN word_counts : word_counts[w] >= 1)
  /\ [][NeverRemovedNeverDecreased]_vars

\* C10 witness: between two batches, "T" counted from the first, more lines
\* with "T" still to fold.
C10_Witness ==
  /\ pc = "loop"
  /\ Len(batches) = 1
  /\ word_counts = [w \in {Upper} |-> 1]
  /\ Len(lines) = 3
  /\ lines[3] = Upper

====
